---- MODULE Spec2Model ----
(***************************************************************************)
(* The GPU resource manager of the 3D scene viewer (ResourceManager in     *)
(* src/src/integration/resourceManager.ts): three caches of textures,      *)
(* materials and geometries, asynchronous texture loads, the fan-out /     *)
(* fan-in of createPBRMaterial, and disposal; and the React components     *)
(* that use it (PBRSphere, LoadingProgress, SceneSetup, EnhancedScene in   *)
(* the same file) with the canvas error handling of the scene components.  *)
(*                                                                         *)
(* Scheduling is the JavaScript event loop.  A caller's operation runs to  *)
(* its first await in one step.  The settlement of a network load is a     *)
(* task of its own; the promise reactions it triggers (attach the texture, *)
(* Promise.all, the continuation of createPBRMaterial) are microtasks that *)
(* drain before any other task, so they belong to the same step.  The      *)
(* reactions of promises that were already resolved when the caller        *)
(* obtained them (cache hits) are microtasks queued by the caller's task:  *)
(* further caller operations may run before them, a load settlement may    *)
(* not.  The then/catch reaction a component chained to the promise that   *)
(* createPBRMaterial returned is a later microtask, a step of its own that *)
(* runs before any other task.                                             *)
(***************************************************************************)
EXTENDS Integers, Sequences, FiniteSets, TLC

\* ------------------------------------------------------------------ bounds
\* Objects ever constructed for the manager: the textures of the loads
\* started, the materials and the geometries.
MaxObjects == 4
\* Geometries ever constructed.
MaxGeometries == 2
\* PBRSphere component instances ever mounted.
MaxSpheres == 4

\* ------------------------------------------------------------------ inputs
\* SlotOrder with the if-statement of the normal slot left out.
SlotOrderNoNormal ==
  <<"albedo", "roughness", "metalness", "aoMap", "emissive", "displacement",
    "alpha">>

\* The slots createPBRMaterial looks at, in the order of its if-statements.
SlotOrder ==
  <<"albedo", "normal", "roughness", "metalness", "aoMap", "emissive",
    "displacement", "alpha">>

Slots == {SlotOrder[i] : i \in 1..Len(SlotOrder)}

\* The slots whose then-callback sets texture.colorSpace = SRGBColorSpace.
ColorSlots == {"albedo", "emissive"}

\* Texture sets handed to createPBRMaterial: textures maps each present slot
\* to its url (an absent slot is outside the domain).  The set twin names one
\* url in a color slot and in a data slot.
TextureAssets ==
  ("rock" :> [id |-> "rock", category |-> "stone",
              textures |-> [albedo |-> "a.png", normal |-> "n.png"]])
  @@ ("veil" :> [id |-> "veil", category |-> "transparent",
                 textures |-> [alpha |-> "l.png"]])
  @@ ("twin" :> [id |-> "twin", category |-> "stone",
                 textures |-> [albedo |-> "a.png", normal |-> "a.png"]])
  @@ ("rust" :> [id |-> "rust", category |-> "metal",
                 textures |-> [aoMap |-> "o.png"]])

AssetIds == DOMAIN TextureAssets

\* The urls the scene loads directly with loadTexture.
Urls == {"a.png"}

\* The createPBRMaterial requests <<texture set, key, isTransparent>>: each set
\* under its default key (PBRSphere passes isTransparent = (category =
\* "transparent")), the alpha set also with isTransparent = false, and one set
\* under the key createGlassMaterial uses.
MaterialRequests ==
  {<<"rock", "rock", FALSE>>, <<"rock", "glass", FALSE>>,
   <<"veil", "veil", TRUE>>, <<"veil", "veil", FALSE>>}

\* The callbacks handed to setProgressCallback: the one LoadingProgress
\* registers when it mounts and the empty one it registers when it unmounts.
Callbacks == {"setProgress", "noop"}

\* The value of onProgressCallback before any setProgressCallback.
Undefined == "undefined"

\* The textureSetId props PBRSphere is rendered with: a set with an
\* ambient-occlusion map, a set of category transparent, and an id that is
\* not in the catalog.
SphereSetIds == {"rust", "veil", "none"}

\* The two PBRSphere elements of EnhancedScene, in the order it renders them.
SpherePositions == <<"left", "right">>

\* Explicit geometry keys a caller may pass instead of the default.
ExplicitGeometryKeys == {"geo"}

\* Shape parameters of the geometry requests: <<radius, widthSegments,
\* heightSegments>> and <<width, height, widthSegments, heightSegments>>.
SphereArgs == {<<1, 32, 32>>, <<1, 16, 32>>, <<1, 32, 16>>, <<2, 32, 32>>}

PlaneArgs == {<<10, 10, 1, 1>>, <<10, 1, 1, 1>>}

\* ------------------------------------------------------------------ state
VARIABLES
  textures,    \* ResourceManager.textures: key -> texture object
  materials,   \* ResourceManager.materials: key -> material object
  geometries,  \* ResourceManager.geometries: key -> geometry object
  texObjs,     \* the THREE.Texture objects, by identity (index)
  matObjs,     \* the THREE.Material objects, by identity (index)
  geoObjs,     \* the THREE.BufferGeometry objects, by identity (index)
  lastOp,      \* the step just taken: operation, key, result
  quiet,       \* dispose() has run and no request was issued since
  loadingManager,      \* THREE.LoadingManager: itemsLoaded, itemsTotal
  loadingProgress,     \* ResourceManager.loadingProgress
  loadingTotal,        \* ResourceManager.loadingTotal
  onProgressCallback,  \* ResourceManager.onProgressCallback
  notified,    \* the call of the progress callback made by the step just taken
  invoked,     \* the callbacks that were ever called
  batch,       \* the loads started since the manager was last idle
  spheres,     \* the PBRSphere component instances, by identity (index)
  ui,          \* EnhancedScene and its LoadingProgress: mount phase and state
  canvas       \* per scene component: hasError, retryCount, hasWebGL

\* The state of the React components.
sceneVars == <<spheres, ui, canvas>>

vars ==
  <<textures, materials, geometries, texObjs, matObjs, geoObjs, lastOp,
    quiet, loadingManager, loadingProgress, loadingTotal, onProgressCallback,
    notified, invoked, batch, spheres, ui, canvas>>

\* ------------------------------------------------------------------ maps
EmptyMap == [x \in {} |-> 0]

Has(map, k) == k \in DOMAIN map

Put(map, k, v) == [x \in DOMAIN map \cup {k} |-> IF x = k THEN v ELSE map[x]]

Remove(map, k) == [x \in DOMAIN map \ {k} |-> map[x]]

Values(map) == {map[k] : k \in DOMAIN map}

Ids(objs) == 1..Len(objs)

\* n more objects can be constructed within the bound.
Room(n) == Len(texObjs) + Len(matObjs) + Len(geoObjs) + n <= MaxObjects

\* obj.dispose() on every object whose identity is in ids; the objects in
\* stale are those delivered under a key that is disposed by this step.
DisposeAll(objs, ids, stale) ==
  [i \in Ids(objs) |->
     [objs[i] EXCEPT !.disposed = @ \/ i \in ids,
                     !.live = @ /\ i \notin stale]]

\* The record of a step: the operation, its key, whether the key was cached,
\* the handle returned (0: none yet), the loads started, the dispose() calls
\* made on objects, and whether the step before was the same operation on the
\* same key.
Op(op, key, hit, ret, started, ndisposed, repeat) ==
  [op |-> op, key |-> key, hit |-> hit, ret |-> ret, started |-> started,
   ndisposed |-> ndisposed, repeat |-> repeat]

Repeats(op, key) == lastOp.op = op /\ lastOp.key = key

\* A call of callback to with itemsLoaded / itemsTotal, kept as the pair.
Notice(to, completed, total) == [to |-> to, completed |-> completed, total |-> total]

\* The step called no progress callback.
NoNotice == Notice("", 0, 0)

\* The loads started since the manager was last idle: the completed count
\* when the first of them started, and whether all of them started before any
\* of them settled (they are one batch).
Batch(base, whole) == [base |-> base, whole |-> whole]

\* The components with a Canvas and an onError handler.
SceneComponents == {"EnhancedScene", "R3FScene", "Scene"}

\* useState(false), useState(0) of a scene component, and useState(null) of
\* the FallbackMessage that Scene renders ("none": no FallbackMessage).
NewCanvas(c) ==
  [hasError |-> FALSE, retryCount |-> 0,
   hasWebGL |-> IF c = "Scene" THEN "null" ELSE "none"]

\* EnhancedScene: whether it is mounted (phase), useState(false) of
\* loadingComplete, whether its LoadingProgress is mounted (overlay), and
\* useState(false) of LoadingProgress.isComplete.
NewScene(phase, overlay) ==
  [phase |-> phase, loadingComplete |-> FALSE, overlay |-> overlay,
   isComplete |-> FALSE]

NoScene == NewScene("unmounted", FALSE)

Init ==
  /\ loadingManager = [itemsLoaded |-> 0, itemsTotal |-> 0]
  /\ loadingProgress = 0
  /\ loadingTotal = 0
  /\ onProgressCallback = Undefined
  /\ notified = NoNotice
  /\ invoked = {}
  /\ batch = Batch(0, TRUE)
  /\ textures = EmptyMap
  /\ materials = EmptyMap
  /\ geometries = EmptyMap
  /\ texObjs = <<>>
  /\ matObjs = <<>>
  /\ geoObjs = <<>>
  /\ lastOp = Op("new", "", FALSE, 0, 0, 0, FALSE)
  /\ quiet = FALSE
  /\ spheres = <<>>
  /\ ui = NoScene
  /\ canvas = [c \in SceneComponents |-> NewCanvas(c)]

\* --------------------------------------------------------------- progress
\* setProgressCallback that keeps a callback already registered.
setProgressCallbackKeepsFirst(callback) ==
  /\ onProgressCallback' =
       IF onProgressCallback = Undefined THEN callback ELSE onProgressCallback
  /\ notified' = NoNotice
  /\ lastOp' = Op("setProgressCallback", callback, FALSE, 0, 0, 0, FALSE)
  /\ UNCHANGED <<textures, materials, geometries, texObjs, matObjs, geoObjs,
                 quiet, loadingManager, loadingProgress, loadingTotal, invoked,
                 batch>>

\* setProgressCallback(callback).
setProgressCallback(callback) ==
  /\ onProgressCallback' = callback
  /\ notified' = NoNotice
  /\ lastOp' = Op("setProgressCallback", callback, FALSE, 0, 0, 0, FALSE)
  /\ UNCHANGED <<textures, materials, geometries, texObjs, matObjs, geoObjs,
                 quiet, loadingManager, loadingProgress, loadingTotal, invoked,
                 batch>>

\* onProgress with the two counters exchanged.
onProgressSwapped(itemsLoaded, itemsTotal) ==
  /\ loadingProgress' = itemsTotal
  /\ loadingTotal' = itemsLoaded
  /\ IF onProgressCallback # Undefined
       THEN /\ notified' = Notice(onProgressCallback, itemsTotal, itemsLoaded)
            /\ invoked' = invoked \cup {onProgressCallback}
       ELSE /\ notified' = NoNotice
            /\ UNCHANGED invoked
  /\ UNCHANGED onProgressCallback

\* onProgress that records the total only.
onProgressTotalOnly(itemsLoaded, itemsTotal) ==
  /\ loadingTotal' = itemsTotal
  /\ IF onProgressCallback # Undefined
       THEN /\ notified' = Notice(onProgressCallback, itemsLoaded, itemsTotal)
            /\ invoked' = invoked \cup {onProgressCallback}
       ELSE /\ notified' = NoNotice
            /\ UNCHANGED invoked
  /\ UNCHANGED <<onProgressCallback, loadingProgress>>

\* loadingManager.onProgress as setupLoadingManager installs it.
onProgress(itemsLoaded, itemsTotal) ==
  /\ loadingProgress' = itemsLoaded
  /\ loadingTotal' = itemsTotal
  /\ IF onProgressCallback # Undefined
       THEN /\ notified' = Notice(onProgressCallback, itemsLoaded, itemsTotal)
            /\ invoked' = invoked \cup {onProgressCallback}
       ELSE /\ notified' = NoNotice
            /\ UNCHANGED invoked
  /\ UNCHANGED onProgressCallback

\* LoadingManager.itemStart for the n loads one step starts: itemsTotal++ for
\* each.  The loads open a batch when none is in flight, join the batch when
\* none of its loads has settled, and otherwise the loads in flight are no
\* longer one batch.
itemStart(n) ==
  /\ loadingManager' = [loadingManager EXCEPT !.itemsTotal = @ + n]
  /\ batch' =
       IF n = 0 THEN batch
       ELSE IF loadingManager.itemsLoaded = loadingManager.itemsTotal
         THEN Batch(loadingManager.itemsLoaded, TRUE)
       ELSE IF batch.whole /\ loadingManager.itemsLoaded = batch.base
         THEN batch
       ELSE Batch(0, FALSE)
  /\ notified' = NoNotice
  /\ UNCHANGED <<loadingProgress, loadingTotal, onProgressCallback, invoked>>

\* LoadingManager.itemEnd, which a load calls when it succeeded and when it
\* failed: itemsLoaded++, then onProgress(url, itemsLoaded, itemsTotal).
itemEnd ==
  LET itemsLoaded == loadingManager.itemsLoaded + 1 IN
  /\ loadingManager' = [loadingManager EXCEPT !.itemsLoaded = itemsLoaded]
  /\ onProgress(itemsLoaded, loadingManager.itemsTotal)
  /\ batch' =
       IF itemsLoaded = loadingManager.itemsTotal
         THEN Batch(itemsLoaded, TRUE)
         ELSE batch

\* A step that neither starts nor settles a load.
NoProgress ==
  /\ notified' = NoNotice
  /\ UNCHANGED <<loadingManager, loadingProgress, loadingTotal,
                 onProgressCallback, invoked, batch>>

\* ------------------------------------------------------------------ loads
\* The loads of material call m that have not settled.
Loading(objs, m) ==
  {i \in Ids(objs) : objs[i].owner = m /\ objs[i].state = "loading"}

\* Call m still waits for a microtask: the reactions of its already resolved
\* loadTexture promises, or (nothing to load) the continuation after
\* await Promise.all.
MicrotaskPending(m) ==
  /\ matObjs[m].status = "pending"
  /\ (DOMAIN matObjs[m].hits # {} \/ Loading(texObjs, m) = {})

NoMicrotasks == \A m \in Ids(matObjs) : ~MicrotaskPending(m)

NewTexture(url, key, owner, slot) ==
  [url |-> url, key |-> key, owner |-> owner, slot |-> slot,
   state |-> "loading", colorSpace |-> "", disposed |-> FALSE, live |-> FALSE]

\* loadTexture(url, key) called by the scene, not by createPBRMaterial.
loadTexture(url, key) ==
  /\ quiet' = FALSE
  /\ UNCHANGED <<textures, materials, geometries, matObjs, geoObjs>>
  /\ \/ /\ Has(textures, key)
        /\ lastOp' = Op("loadTexture", key, TRUE, textures[key], 0, 0, FALSE)
        /\ NoProgress
        /\ UNCHANGED texObjs
     \/ /\ ~Has(textures, key)
        /\ Room(1)
        /\ texObjs' = Append(texObjs, NewTexture(url, key, 0, ""))
        /\ itemStart(1)
        /\ lastOp' = Op("loadTexture", key, FALSE, 0, 1, 0, FALSE)

\* AttachSlot that replaces the textures attached so far.
AttachSlotReplaces(mat, slot, t) ==
  [mat EXCEPT !.maps = Put(EmptyMap, slot, t),
              !.transparent = IF slot = "alpha" THEN TRUE ELSE @]

\* AttachSlot without the alpha callback's material.transparent = true.
AttachSlotNoAlpha(mat, slot, t) == [mat EXCEPT !.maps = Put(@, slot, t)]

\* The then-callback of one slot: material.<slot> = texture, and for the
\* alpha slot material.transparent = true.
AttachSlot(mat, slot, t) ==
  [mat EXCEPT !.maps = Put(@, slot, t),
              !.transparent = IF slot = "alpha" THEN TRUE ELSE @]

\* The then-callback's texture.colorSpace = SRGBColorSpace (albedo, emissive).
TagColorSpace(tex, slot) ==
  IF slot \in ColorSlots THEN [tex EXCEPT !.colorSpace = "srgb"] ELSE tex

\* PromiseAll as Promise.race would behave: settled by the first slot.
PromiseRace(status, loading, failed) ==
  IF status # "pending" THEN status
  ELSE IF failed THEN "rejected"
  ELSE "resolved"

\* PromiseAll as Promise.allSettled would behave: failures do not reject.
PromiseAllSettled(status, loading, failed) ==
  IF status # "pending" THEN status
  ELSE IF loading = {} THEN "resolved"
  ELSE "pending"

\* await Promise.all(texturePromises): the state of the call given the loads
\* still outstanding and whether the load that just settled failed.
PromiseAll(status, loading, failed) ==
  IF status # "pending" THEN status
  ELSE IF failed THEN "rejected"
  ELSE IF loading = {} THEN "resolved"
  ELSE "pending"

\* The code after the await: this.materials.set(key, material); return material.
\* mat is the material of call m after this step's attachments, st its status.
Continue(m, mat, st) ==
  LET done == matObjs[m].status = "pending" /\ st = "resolved" IN
  /\ matObjs' = [matObjs EXCEPT ![m] = [mat EXCEPT !.status = st, !.live = done]]
  /\ materials' = IF done THEN Put(materials, mat.name, m) ELSE materials

\* The onLoad callback of loader.load for load i, and the promise reactions
\* it triggers.
onLoad(i) ==
  /\ i \in Ids(texObjs)
  /\ texObjs[i].state = "loading"
  /\ NoMicrotasks
  /\ LET t == texObjs[i]
         m == t.owner
     IN
     /\ textures' = Put(textures, t.key, i)
     /\ texObjs' =
          [texObjs EXCEPT
             ![i] = TagColorSpace([@ EXCEPT !.state = "loaded", !.live = TRUE], t.slot)]
     /\ IF m = 0
          THEN UNCHANGED <<matObjs, materials>>
          ELSE LET mat == AttachSlot(matObjs[m], t.slot, i)
                   st == PromiseAll(mat.status, Loading(texObjs, m) \ {i}, FALSE)
               IN Continue(m, mat, st)
     /\ lastOp' = Op("onLoad", t.key, FALSE, i, 0, 0, FALSE)
  /\ itemEnd
  /\ UNCHANGED <<geometries, geoObjs, quiet>>

\* onError storing the failed load's texture under the key.
onErrorCaches(i) ==
  /\ i \in Ids(texObjs)
  /\ texObjs[i].state = "loading"
  /\ NoMicrotasks
  /\ LET t == texObjs[i]
         m == t.owner
     IN
     /\ texObjs' = [texObjs EXCEPT ![i].state = "failed"]
     /\ textures' = Put(textures, t.key, i)
     /\ IF m = 0
          THEN UNCHANGED <<matObjs, materials>>
          ELSE LET st == PromiseAll(matObjs[m].status, Loading(texObjs, m) \ {i}, TRUE)
               IN Continue(m, matObjs[m], st)
     /\ lastOp' = Op("onError", t.key, FALSE, i, 0, 0, FALSE)
  /\ itemEnd
  /\ UNCHANGED <<geometries, geoObjs, quiet>>

\* onError emptying the texture cache.
onErrorClears(i) ==
  /\ i \in Ids(texObjs)
  /\ texObjs[i].state = "loading"
  /\ NoMicrotasks
  /\ LET t == texObjs[i]
         m == t.owner
     IN
     /\ texObjs' = [texObjs EXCEPT ![i].state = "failed"]
     /\ textures' = EmptyMap
     /\ IF m = 0
          THEN UNCHANGED <<matObjs, materials>>
          ELSE LET st == PromiseAll(matObjs[m].status, Loading(texObjs, m) \ {i}, TRUE)
               IN Continue(m, matObjs[m], st)
     /\ lastOp' = Op("onError", t.key, FALSE, i, 0, 0, FALSE)
  /\ itemEnd
  /\ UNCHANGED <<geometries, geoObjs, quiet>>

\* The onError callback of loader.load for load i: reject(error).
onError(i) ==
  /\ i \in Ids(texObjs)
  /\ texObjs[i].state = "loading"
  /\ NoMicrotasks
  /\ LET t == texObjs[i]
         m == t.owner
     IN
     /\ texObjs' = [texObjs EXCEPT ![i].state = "failed"]
     /\ IF m = 0
          THEN UNCHANGED <<matObjs, materials>>
          ELSE LET st == PromiseAll(matObjs[m].status, Loading(texObjs, m) \ {i}, TRUE)
               IN Continue(m, matObjs[m], st)
     /\ lastOp' = Op("onError", t.key, FALSE, i, 0, 0, FALSE)
  /\ itemEnd
  /\ UNCHANGED <<textures, geometries, geoObjs, quiet>>

RECURSIVE AttachAll(_, _, _)
AttachAll(mat, hits, slots) ==
  IF slots = {} THEN mat
  ELSE LET s == CHOOSE x \in slots : TRUE
       IN AttachAll(AttachSlot(mat, s, hits[s]), hits, slots \ {s})

\* The microtasks of call m: the then-callbacks of the loadTexture promises
\* that were resolved at call time (cache hits), then, when no load is
\* outstanding, the continuation after the await.
resolveCached(m) ==
  /\ m \in Ids(matObjs)
  /\ MicrotaskPending(m)
  /\ LET hits == matObjs[m].hits
         mat == [AttachAll(matObjs[m], hits, DOMAIN hits) EXCEPT !.hits = EmptyMap]
         st == PromiseAll(mat.status, Loading(texObjs, m), FALSE)
     IN
     /\ texObjs' =
          [i \in Ids(texObjs) |->
             IF \E s \in DOMAIN hits : hits[s] = i /\ s \in ColorSlots
               THEN [texObjs[i] EXCEPT !.colorSpace = "srgb"]
               ELSE texObjs[i]]
     /\ Continue(m, mat, st)
     /\ lastOp' = Op("resolveCached", mat.name, FALSE, m, 0, 0, FALSE)
  /\ NoProgress
  /\ UNCHANGED <<textures, geometries, geoObjs, quiet>>

\* The constructor parameters of the glass material besides name and
\* transparent, the numbers in hundredths.
GlassDefaults ==
  [color |-> "ffffff", metalness |-> 0, roughness |-> 5, transmission |-> 95,
   thickness |-> 50, ior |-> 150, opacity |-> 90, envMapIntensity |-> 100]

NewMaterial(type, name, asset, isTransparent, hits, status) ==
  [type |-> type, name |-> name, asset |-> asset,
   parameters |-> IF type = "physical" THEN GlassDefaults ELSE EmptyMap,
   argTransparent |-> isTransparent, transparent |-> isTransparent,
   depthWrite |-> TRUE, side |-> "front",
   maps |-> EmptyMap, hits |-> hits, status |-> status, disposed |-> FALSE,
   live |-> status = "resolved"]

\* createPBRMaterial(textureAsset, key, isTransparent), up to its await.
createPBRMaterial(textureAsset, key, isTransparent) ==
  /\ quiet' = FALSE
  /\ UNCHANGED <<textures, materials, geometries, geoObjs>>
  /\ \/ /\ Has(materials, key)
        /\ lastOp' = Op("createPBRMaterial", key, TRUE, materials[key], 0, 0, FALSE)
        /\ NoProgress
        /\ UNCHANGED <<texObjs, matObjs>>
     \/ /\ ~Has(materials, key)
        /\ LET urls == TextureAssets[textureAsset].textures
               m == Len(matObjs) + 1
               cached == {s \in DOMAIN urls : Has(textures, urls[s])}
               Missing(s) == s \in DOMAIN urls \ cached
               toLoad == SelectSeq(SlotOrder, Missing)
               hits == [s \in cached |-> textures[urls[s]]]
           IN
           /\ Room(1 + Len(toLoad))
           /\ texObjs' =
                texObjs \o
                  [j \in 1..Len(toLoad) |->
                     NewTexture(urls[toLoad[j]], urls[toLoad[j]], m, toLoad[j])]
           /\ matObjs' =
                Append(matObjs,
                       NewMaterial("standard", key, textureAsset, isTransparent,
                                   hits, "pending"))
           /\ itemStart(Len(toLoad))
           /\ lastOp' = Op("createPBRMaterial", key, FALSE, 0, Len(toLoad), 0, FALSE)

\* createGlassMaterial constructing the material with transparent: false.
createGlassMaterialOpaque(key) ==
  /\ quiet' = FALSE
  /\ NoProgress
  /\ UNCHANGED <<textures, geometries, texObjs, geoObjs>>
  /\ \/ /\ Has(materials, key)
        /\ lastOp' =
             Op("createGlassMaterial", key, TRUE, materials[key], 0, 0, FALSE)
        /\ UNCHANGED <<materials, matObjs>>
     \/ /\ ~Has(materials, key)
        /\ Room(1)
        /\ LET m == Len(matObjs) + 1 IN
           /\ matObjs' =
                Append(matObjs,
                       NewMaterial("physical", key, "", FALSE, EmptyMap, "resolved"))
           /\ materials' = Put(materials, key, m)
           /\ lastOp' =
                Op("createGlassMaterial", key, FALSE, m, 0, 0, FALSE)

\* createGlassMaterial(key).
createGlassMaterial(key) ==
  /\ quiet' = FALSE
  /\ NoProgress
  /\ UNCHANGED <<textures, geometries, texObjs, geoObjs>>
  /\ \/ /\ Has(materials, key)
        /\ lastOp' =
             Op("createGlassMaterial", key, TRUE, materials[key], 0, 0, FALSE)
        /\ UNCHANGED <<materials, matObjs>>
     \/ /\ ~Has(materials, key)
        /\ Room(1)
        /\ LET m == Len(matObjs) + 1 IN
           /\ matObjs' =
                Append(matObjs,
                       NewMaterial("physical", key, "", TRUE, EmptyMap, "resolved"))
           /\ materials' = Put(materials, key, m)
           /\ lastOp' =
                Op("createGlassMaterial", key, FALSE, m, 0, 0, FALSE)

\* ------------------------------------------------------------- geometries
\* SphereKey with heightSegments left out of the template.
SphereKeyNoHeight(radius, widthSegments, heightSegments) ==
  "sphere-" \o ToString(radius) \o "-" \o ToString(widthSegments)

\* The default key of getSphereGeometry: `sphere-${radius}-${widthSegments}-${heightSegments}`.
SphereKey(radius, widthSegments, heightSegments) ==
  "sphere-" \o ToString(radius) \o "-" \o ToString(widthSegments) \o "-"
    \o ToString(heightSegments)

\* The default key of getPlaneGeometry.
PlaneKey(width, height, widthSegments, heightSegments) ==
  "plane-" \o ToString(width) \o "-" \o ToString(height) \o "-"
    \o ToString(widthSegments) \o "-" \o ToString(heightSegments)

NewGeometry(type, parameters, key) ==
  [type |-> type, parameters |-> parameters, key |-> key, disposed |-> FALSE,
   live |-> TRUE]

\* GetGeometry returning the cached geometry only when it has the shape asked
\* for, and constructing one otherwise.
GetGeometryChecksShape(op, type, parameters, key) ==
  LET same ==
        /\ Has(geometries, key)
        /\ geoObjs[geometries[key]].type = type
        /\ geoObjs[geometries[key]].parameters = parameters
  IN
  /\ quiet' = FALSE
  /\ NoProgress
  /\ UNCHANGED <<textures, materials, texObjs, matObjs>>
  /\ \/ /\ same
        /\ lastOp' = Op(op, key, TRUE, geometries[key], 0, 0, FALSE)
        /\ UNCHANGED <<geometries, geoObjs>>
     \/ /\ ~same
        /\ Room(1)
        /\ Len(geoObjs) < MaxGeometries
        /\ LET g == Len(geoObjs) + 1 IN
           /\ geoObjs' = Append(geoObjs, NewGeometry(type, parameters, key))
           /\ geometries' = Put(geometries, key, g)
           /\ lastOp' = Op(op, key, FALSE, g, 0, 0, FALSE)

\* The body shared by getSphereGeometry and getPlaneGeometry.
GetGeometry(op, type, parameters, key) ==
  /\ quiet' = FALSE
  /\ NoProgress
  /\ UNCHANGED <<textures, materials, texObjs, matObjs>>
  /\ \/ /\ Has(geometries, key)
        /\ lastOp' = Op(op, key, TRUE, geometries[key], 0, 0, FALSE)
        /\ UNCHANGED <<geometries, geoObjs>>
     \/ /\ ~Has(geometries, key)
        /\ Room(1)
        /\ Len(geoObjs) < MaxGeometries
        /\ LET g == Len(geoObjs) + 1 IN
           /\ geoObjs' = Append(geoObjs, NewGeometry(type, parameters, key))
           /\ geometries' = Put(geometries, key, g)
           /\ lastOp' = Op(op, key, FALSE, g, 0, 0, FALSE)

getSphereGeometry(radius, widthSegments, heightSegments, key) ==
  GetGeometry("getSphereGeometry", "sphere",
              <<radius, widthSegments, heightSegments>>, key)

getPlaneGeometry(width, height, widthSegments, heightSegments, key) ==
  GetGeometry("getPlaneGeometry", "plane",
              <<width, height, widthSegments, heightSegments>>, key)

\* ---------------------------------------------------------------- disposal
\* dispose() without the three clear() calls.
disposeNoClear ==
  /\ texObjs' = DisposeAll(texObjs, Values(textures), Ids(texObjs))
  /\ matObjs' = DisposeAll(matObjs, Values(materials), Ids(matObjs))
  /\ geoObjs' = DisposeAll(geoObjs, Values(geometries), Ids(geoObjs))
  /\ lastOp' =
       Op("dispose", "", FALSE, 0, 0,
          Cardinality(DOMAIN textures) + Cardinality(DOMAIN materials)
            + Cardinality(DOMAIN geometries),
          Repeats("dispose", ""))
  /\ quiet' = TRUE
  /\ NoProgress
  /\ UNCHANGED <<textures, materials, geometries>>

\* dispose() that clears the maps without disposing the textures.
disposeNoTextureRelease ==
  /\ textures' = EmptyMap
  /\ matObjs' = DisposeAll(matObjs, Values(materials), Ids(matObjs))
  /\ materials' = EmptyMap
  /\ geoObjs' = DisposeAll(geoObjs, Values(geometries), Ids(geoObjs))
  /\ geometries' = EmptyMap
  /\ lastOp' =
       Op("dispose", "", FALSE, 0, 0,
          Cardinality(DOMAIN materials) + Cardinality(DOMAIN geometries),
          Repeats("dispose", ""))
  /\ quiet' = TRUE
  /\ NoProgress
  /\ UNCHANGED texObjs

\* dispose(): dispose every cached object, clear the three maps.
dispose ==
  /\ texObjs' = DisposeAll(texObjs, Values(textures), Ids(texObjs))
  /\ textures' = EmptyMap
  /\ matObjs' = DisposeAll(matObjs, Values(materials), Ids(matObjs))
  /\ materials' = EmptyMap
  /\ geoObjs' = DisposeAll(geoObjs, Values(geometries), Ids(geoObjs))
  /\ geometries' = EmptyMap
  /\ lastOp' =
       Op("dispose", "", FALSE, 0, 0,
          Cardinality(DOMAIN textures) + Cardinality(DOMAIN materials)
            + Cardinality(DOMAIN geometries),
          Repeats("dispose", ""))
  /\ quiet' = TRUE
  /\ NoProgress

\* disposeTexture without this.textures.delete(key).
disposeTextureNoDelete(key) ==
  /\ NoProgress
  /\ IF Has(textures, key)
       THEN /\ texObjs' =
                 DisposeAll(texObjs, {textures[key]},
                            {i \in Ids(texObjs) : texObjs[i].key = key})
            /\ lastOp' = Op("disposeTexture", key, TRUE, 0, 0, 1, FALSE)
       ELSE /\ UNCHANGED texObjs
            /\ lastOp' = Op("disposeTexture", key, FALSE, 0, 0, 0, FALSE)
  /\ UNCHANGED <<textures, materials, geometries, matObjs, geoObjs, quiet>>

disposeTexture(key) ==
  /\ NoProgress
  /\ IF Has(textures, key)
       THEN /\ texObjs' = DisposeAll(texObjs, {textures[key]}, {i \in Ids(texObjs) : texObjs[i].key = key})
            /\ textures' = Remove(textures, key)
            /\ lastOp' =
                 Op("disposeTexture", key, TRUE, 0, 0, 1, FALSE)
       ELSE /\ UNCHANGED <<texObjs, textures>>
            /\ lastOp' =
                 Op("disposeTexture", key, FALSE, 0, 0, 0, FALSE)
  /\ UNCHANGED <<materials, geometries, matObjs, geoObjs, quiet>>

disposeMaterial(key) ==
  /\ NoProgress
  /\ IF Has(materials, key)
       THEN /\ matObjs' = DisposeAll(matObjs, {materials[key]}, {i \in Ids(matObjs) : matObjs[i].name = key})
            /\ materials' = Remove(materials, key)
            /\ lastOp' =
                 Op("disposeMaterial", key, TRUE, 0, 0, 1, FALSE)
       ELSE /\ UNCHANGED <<matObjs, materials>>
            /\ lastOp' =
                 Op("disposeMaterial", key, FALSE, 0, 0, 0, FALSE)
  /\ UNCHANGED <<textures, geometries, texObjs, geoObjs, quiet>>

disposeGeometry(key) ==
  /\ NoProgress
  /\ IF Has(geometries, key)
       THEN /\ geoObjs' = DisposeAll(geoObjs, {geometries[key]}, {i \in Ids(geoObjs) : geoObjs[i].key = key})
            /\ geometries' = Remove(geometries, key)
            /\ lastOp' =
                 Op("disposeGeometry", key, TRUE, 0, 0, 1, FALSE)
       ELSE /\ UNCHANGED <<geoObjs, geometries>>
            /\ lastOp' =
                 Op("disposeGeometry", key, FALSE, 0, 0, 0, FALSE)
  /\ UNCHANGED <<textures, materials, texObjs, matObjs, quiet>>

\* ------------------------------------------------------------------ scene
\* A step of the components that calls no operation of the manager.
NoManagerCall ==
  /\ NoProgress
  /\ UNCHANGED <<textures, materials, geometries, texObjs, matObjs, geoObjs,
                 quiet>>

\* The condition of the early return of the three scene components:
\* hasError && retryCount >= 3.
Fallback(c) == canvas[c].hasError /\ canvas[c].retryCount >= 3

\* What a scene component returns: its fallback alone in the early return,
\* otherwise the Canvas, beside which Scene also renders its FallbackMessage.
Render(c) ==
  IF Fallback(c) THEN {"fallback"}
  ELSE IF c = "Scene" THEN {"fallback", "Canvas"}
  ELSE {"Canvas"}

\* What FallbackMessage returns for its hasWebGL state.
FallbackMessage(hasWebGL) ==
  CASE hasWebGL = "null" -> "Checking WebGL support..."
    [] hasWebGL = "false" -> "WebGL Not Available"
    [] OTHER -> ""

\* The onError handler of the Canvas of component c, which exists while the
\* component renders its Canvas: setHasError(true); setRetryCount(prev => prev + 1).
CanvasError(c) ==
  /\ "Canvas" \in Render(c)
  /\ canvas' = [canvas EXCEPT ![c].hasError = TRUE, ![c].retryCount = @ + 1]
  /\ lastOp' = Op("onError", c, FALSE, 0, 0, 0, FALSE)
  /\ NoManagerCall
  /\ UNCHANGED <<spheres, ui>>

\* The effect of FallbackMessage: setHasWebGL(!!gl), gl being whatever
\* getContext returns on this device.
CheckWebGL(c) ==
  /\ canvas[c].hasWebGL = "null"
  /\ \E gl \in {"true", "false"} : canvas' = [canvas EXCEPT ![c].hasWebGL = gl]
  /\ lastOp' = Op("FallbackMessage", c, FALSE, 0, 0, 0, FALSE)
  /\ NoManagerCall
  /\ UNCHANGED <<spheres, ui>>

\* textureService.getTextureSet(id): the set, or undefined.
getTextureSet(id) == IF id \in AssetIds THEN TextureAssets[id] ELSE Undefined

\* A PBRSphere instance after its first render and effect: its props, whether
\* it is mounted (meshRef.current is the mesh exactly then), the material its
\* createPBRMaterial promise delivers (0: no request), whether that promise
\* was resolved when obtained (cache hit), the state of the then/catch
\* reaction, useState(null) of material (0: unset, the default material is
\* rendered), and the uv and uv2 attributes of its sphereGeometry.
NewSphere(position, textureSetId, request, cached) ==
  [position |-> position, textureSetId |-> textureSetId, mounted |-> TRUE,
   request |-> request, cached |-> cached,
   reaction |-> IF request = 0 THEN "none" ELSE "pending",
   material |-> 0, uv |-> TRUE, uv2 |-> FALSE]

\* The PBRSphere instances that are mounted.
Mounted == {s \in Ids(spheres) : spheres[s].mounted}

\* PBRSphere mounts at position, the elements before it being mounted: first
\* render, then its effect, which requests the material of the texture set
\* unless the id is unknown.
PBRSphere(position, textureSetId) ==
  /\ ui.phase = "mounted"
  /\ Len(spheres) < MaxSpheres
  /\ Cardinality(Mounted) < Len(SpherePositions)
  /\ position = SpherePositions[Cardinality(Mounted) + 1]
  /\ LET textureSet == getTextureSet(textureSetId) IN
     IF textureSetId \notin AssetIds
       THEN /\ spheres' =
                 Append(spheres, NewSphere(position, textureSetId, 0, FALSE))
            /\ lastOp' = Op("PBRSphere", textureSetId, FALSE, 0, 0, 0, FALSE)
            /\ NoManagerCall
       ELSE /\ createPBRMaterial(textureSetId, textureSetId,
                                  textureSet.category = "transparent")
            /\ spheres' =
                 Append(spheres,
                        NewSphere(position, textureSetId,
                                  IF Has(materials, textureSetId)
                                    THEN materials[textureSetId]
                                    ELSE Len(matObjs) + 1,
                                  Has(materials, textureSetId)))
  /\ UNCHANGED <<ui, canvas>>

\* The promise of sphere s has settled and its reaction has not run.
ReactionPending(s) ==
  /\ spheres[s].reaction = "pending"
  /\ spheres[s].cached \/ matObjs[spheres[s].request].status # "pending"

NoReactions == \A s \in Ids(spheres) : ~ReactionPending(s)

\* PBRSphereThen without the setAttribute('uv2', ...) block.
PBRSphereThenNoUv2(s) ==
  /\ ui.phase # "unmounting"
  /\ ReactionPending(s)
  /\ LET sp == spheres[s]
         newMaterial == sp.request
         isTransparent == getTextureSet(sp.textureSetId).category = "transparent"
     IN
     IF sp.cached \/ matObjs[newMaterial].status = "resolved"
       THEN /\ spheres' =
                 [spheres EXCEPT
                    ![s].uv2 = @,
                    ![s].material = IF sp.mounted THEN newMaterial ELSE @,
                    ![s].reaction = "fulfilled"]
            /\ matObjs' =
                 IF isTransparent
                   THEN [matObjs EXCEPT ![newMaterial].transparent = TRUE,
                                        ![newMaterial].depthWrite = FALSE,
                                        ![newMaterial].side = "double"]
                   ELSE matObjs
       ELSE /\ spheres' = [spheres EXCEPT ![s].reaction = "caught"]
            /\ UNCHANGED matObjs
  /\ lastOp' = Op("PBRSphere.then", spheres[s].textureSetId, spheres[s].cached,
                  spheres[s].request, 0, 0, FALSE)
  /\ NoProgress
  /\ UNCHANGED <<textures, materials, geometries, texObjs, geoObjs, quiet, ui,
                 canvas>>

\* PBRSphereThen without the .catch.
PBRSphereThenNoCatch(s) ==
  /\ ui.phase # "unmounting"
  /\ ReactionPending(s)
  /\ LET sp == spheres[s]
         newMaterial == sp.request
         isTransparent == getTextureSet(sp.textureSetId).category = "transparent"
     IN
     IF sp.cached \/ matObjs[newMaterial].status = "resolved"
       THEN /\ spheres' =
                 [spheres EXCEPT
                    ![s].uv2 = @ \/ (sp.mounted /\ "aoMap" \in DOMAIN matObjs[newMaterial].maps
                                   /\ sp.uv),
                    ![s].material = IF sp.mounted THEN newMaterial ELSE @,
                    ![s].reaction = "fulfilled"]
            /\ matObjs' =
                 IF isTransparent
                   THEN [matObjs EXCEPT ![newMaterial].transparent = TRUE,
                                        ![newMaterial].depthWrite = FALSE,
                                        ![newMaterial].side = "double"]
                   ELSE matObjs
       ELSE /\ spheres' = [spheres EXCEPT ![s].reaction = "unhandled"]
            /\ UNCHANGED matObjs
  /\ lastOp' = Op("PBRSphere.then", spheres[s].textureSetId, spheres[s].cached,
                  spheres[s].request, 0, 0, FALSE)
  /\ NoProgress
  /\ UNCHANGED <<textures, materials, geometries, texObjs, geoObjs, quiet, ui,
                 canvas>>

\* The reaction of PBRSphere s to its createPBRMaterial promise, a microtask:
\* the then-callback (uv2 for a material with aoMap while the mesh is
\* mounted, the transparency settings, setMaterial, which does nothing once
\* the component is unmounted) or the catch-callback.
PBRSphereThen(s) ==
  /\ ui.phase # "unmounting"
  /\ ReactionPending(s)
  /\ LET sp == spheres[s]
         newMaterial == sp.request
         isTransparent == getTextureSet(sp.textureSetId).category = "transparent"
     IN
     IF sp.cached \/ matObjs[newMaterial].status = "resolved"
       THEN /\ spheres' =
                 [spheres EXCEPT
                    ![s].uv2 = @ \/ (sp.mounted /\ "aoMap" \in DOMAIN matObjs[newMaterial].maps
                                   /\ sp.uv),
                    ![s].material = IF sp.mounted THEN newMaterial ELSE @,
                    ![s].reaction = "fulfilled"]
            /\ matObjs' =
                 IF isTransparent
                   THEN [matObjs EXCEPT ![newMaterial].transparent = TRUE,
                                        ![newMaterial].depthWrite = FALSE,
                                        ![newMaterial].side = "double"]
                   ELSE matObjs
       ELSE /\ spheres' = [spheres EXCEPT ![s].reaction = "caught"]
            /\ UNCHANGED matObjs
  /\ lastOp' = Op("PBRSphere.then", spheres[s].textureSetId, spheres[s].cached,
                  spheres[s].request, 0, 0, FALSE)
  /\ NoProgress
  /\ UNCHANGED <<textures, materials, geometries, texObjs, geoObjs, quiet, ui,
                 canvas>>

\* The callback LoadingProgress registers, called with loaded / total:
\* setProgress; if (value >= 1.0) { setIsComplete(true); onComplete() }, and
\* onComplete is setLoadingComplete(true).  It does nothing once unmounted.
LoadingProgressCallback(loaded, total) ==
  IF onProgressCallback = "setProgress" /\ ui.overlay /\ loaded >= total
    THEN [ui EXCEPT !.isComplete = TRUE, !.loadingComplete = TRUE]
    ELSE ui

\* A load of the scene settles: a task, which starts when no microtask is
\* pending and not inside the commit that unmounts the scene; the manager
\* calls the registered progress callback.
SceneLoad(i, failed) ==
  /\ ui.phase # "unmounting"
  /\ NoReactions
  /\ IF failed THEN onError(i) ELSE onLoad(i)
  /\ ui' = LoadingProgressCallback(loadingManager.itemsLoaded + 1,
                                   loadingManager.itemsTotal)
  /\ UNCHANGED <<spheres, canvas>>

\* EnhancedScene mounts: loadingComplete is false, LoadingProgress is
\* rendered and its effect registers the callback.
MountScene ==
  /\ ui.phase = "unmounted"
  /\ setProgressCallback("setProgress")
  /\ ui' = NewScene("mounted", TRUE)
  /\ UNCHANGED <<spheres, canvas>>

\* EnhancedScene unmounts: a commit that starts when no microtask is pending,
\* unmounts the spheres and then runs the cleanups below.
UnmountScene ==
  /\ ui.phase = "mounted"
  /\ NoReactions /\ NoMicrotasks
  /\ ui' = [ui EXCEPT !.phase = "unmounting"]
  /\ spheres' = [s \in Ids(spheres) |-> [spheres[s] EXCEPT !.mounted = FALSE]]
  /\ lastOp' = Op("unmount", "", FALSE, 0, 0, 0, FALSE)
  /\ NoManagerCall
  /\ UNCHANGED canvas

\* The cleanup of the effect of LoadingProgress, when EnhancedScene stops
\* rendering it (loadingComplete) or unmounts.
LoadingProgressCleanup ==
  /\ ui.overlay
  /\ ui.loadingComplete \/ ui.phase = "unmounting"
  /\ setProgressCallback("noop")
  /\ ui' = [ui EXCEPT !.overlay = FALSE]
  /\ UNCHANGED <<spheres, canvas>>

\* The cleanup of the effect of SceneSetup: resourceManager.dispose().
SceneSetupCleanup ==
  /\ ui.phase = "unmounting"
  /\ ~ui.overlay
  /\ dispose
  /\ ui' = [ui EXCEPT !.phase = "unmounted"]
  /\ UNCHANGED <<spheres, canvas>>

\* ------------------------------------------------------------ specifications
\* The keys the caches can hold.
TextureKeys == {"a.png", "l.png"}

MaterialKeys == {"rock", "glass"}

\* The requests, load settlements and microtasks of a scene.
Next ==
  \/ \E url \in Urls : loadTexture(url, url) /\ UNCHANGED sceneVars
  \/ \E r \in MaterialRequests : createPBRMaterial(r[1], r[2], r[3]) /\ UNCHANGED sceneVars
  \/ \E i \in Ids(texObjs) : onLoad(i) /\ UNCHANGED sceneVars
  \/ \E i \in Ids(texObjs) : onError(i) /\ UNCHANGED sceneVars
  \/ \E m \in Ids(matObjs) : resolveCached(m) /\ UNCHANGED sceneVars
  \/ createGlassMaterial("glass") /\ UNCHANGED sceneVars
  \/ getPlaneGeometry(10, 10, 1, 1, PlaneKey(10, 10, 1, 1)) /\ UNCHANGED sceneVars
  \/ dispose /\ UNCHANGED sceneVars
  \/ \E key \in TextureKeys : disposeTexture(key) /\ UNCHANGED sceneVars
  \/ \E key \in MaterialKeys : disposeMaterial(key) /\ UNCHANGED sceneVars
  \/ disposeGeometry(PlaneKey(10, 10, 1, 1)) /\ UNCHANGED sceneVars

Spec == Init /\ [][Next]_vars

\* The createPBRMaterial requests of a scene one of whose texture sets names
\* the same url in two slots.
ColorRequests == {<<"rock", "rock", FALSE>>, <<"twin", "twin", FALSE>>}

NextColor ==
  \/ \E url \in Urls : loadTexture(url, url) /\ UNCHANGED sceneVars
  \/ \E r \in ColorRequests : createPBRMaterial(r[1], r[2], r[3]) /\ UNCHANGED sceneVars
  \/ \E i \in Ids(texObjs) : onLoad(i) /\ UNCHANGED sceneVars
  \/ \E i \in Ids(texObjs) : onError(i) /\ UNCHANGED sceneVars
  \/ \E m \in Ids(matObjs) : resolveCached(m) /\ UNCHANGED sceneVars
  \/ \E key \in TextureKeys : disposeTexture(key) /\ UNCHANGED sceneVars
  \/ dispose /\ UNCHANGED sceneVars

SpecColor == Init /\ [][NextColor]_vars

\* The loads of a scene whose LoadingProgress component mounts and unmounts.
NextProgress ==
  \/ \E callback \in Callbacks : setProgressCallback(callback) /\ UNCHANGED sceneVars
  \/ \E url \in Urls : loadTexture(url, url) /\ UNCHANGED sceneVars
  \/ createPBRMaterial("rock", "rock", FALSE) /\ UNCHANGED sceneVars
  \/ \E i \in Ids(texObjs) : onLoad(i) /\ UNCHANGED sceneVars
  \/ \E i \in Ids(texObjs) : onError(i) /\ UNCHANGED sceneVars
  \/ \E m \in Ids(matObjs) : resolveCached(m) /\ UNCHANGED sceneVars
  \/ dispose /\ UNCHANGED sceneVars

SpecProgress == Init /\ [][NextProgress]_vars

\* The geometry requests over all shapes, with default and explicit keys.
GeometryKeys ==
  {SphereKey(p[1], p[2], p[3]) : p \in SphereArgs}
    \cup {PlaneKey(p[1], p[2], p[3], p[4]) : p \in PlaneArgs}
    \cup ExplicitGeometryKeys

NextGeometry ==
  \/ /\ \E p \in SphereArgs :
          \E key \in {SphereKey(p[1], p[2], p[3])} \cup ExplicitGeometryKeys :
            getSphereGeometry(p[1], p[2], p[3], key)
     /\ UNCHANGED sceneVars
  \/ /\ \E p \in PlaneArgs :
          \E key \in {PlaneKey(p[1], p[2], p[3], p[4])} \cup ExplicitGeometryKeys :
            getPlaneGeometry(p[1], p[2], p[3], p[4], key)
     /\ UNCHANGED sceneVars
  \/ (\E key \in GeometryKeys : disposeGeometry(key)) /\ UNCHANGED sceneVars
  \/ dispose /\ UNCHANGED sceneVars

SpecGeometry == Init /\ [][NextGeometry]_vars

\* createPBRMaterial calls with pairwise different keys, two of them for one
\* texture set, and the settlements of their loads in every order.
OrderRequests ==
  {<<"veil", "veil", TRUE>>, <<"veil", "glass", FALSE>>, <<"rock", "rock", FALSE>>}

NextOrder ==
  \/ \E r \in OrderRequests : createPBRMaterial(r[1], r[2], r[3]) /\ UNCHANGED sceneVars
  \/ \E i \in Ids(texObjs) : onLoad(i) /\ UNCHANGED sceneVars
  \/ \E i \in Ids(texObjs) : onError(i) /\ UNCHANGED sceneVars
  \/ \E m \in Ids(matObjs) : resolveCached(m) /\ UNCHANGED sceneVars

SpecOrder == Init /\ [][NextOrder]_vars

\* The canvas errors of the three scene components.
NextCanvas ==
  \/ \E c \in SceneComponents : CanvasError(c)
  \/ CheckWebGL("Scene")

SpecCanvas == Init /\ [][NextCanvas]_vars

\* EnhancedScene with its LoadingProgress and PBRSpheres: mounts, unmounts,
\* load settlements and promise reactions.
NextScene ==
  \/ MountScene
  \/ \E p \in Ids(SpherePositions), textureSetId \in SphereSetIds :
       PBRSphere(SpherePositions[p], textureSetId)
  \/ \E s \in Ids(spheres) : PBRSphereThen(s)
  \/ \E i \in Ids(texObjs) : SceneLoad(i, FALSE)
  \/ \E i \in Ids(texObjs) : SceneLoad(i, TRUE)
  \/ LoadingProgressCleanup
  \/ UnmountScene
  \/ SceneSetupCleanup

SpecScene == Init /\ [][NextScene]_vars

\* ------------------------------------------------------------------ claims
Empty(map) == DOMAIN map = {}

Requests ==
  {"loadTexture", "createPBRMaterial", "createGlassMaterial",
   "getSphereGeometry", "getPlaneGeometry"}

\* The loads for key that have not settled.
InFlight(key) ==
  {i \in Ids(texObjs) : texObjs[i].key = key /\ texObjs[i].state = "loading"}

\* C1: for every cache key, at most one load is ever in flight: a second
\* loadTexture for a key whose first load has not settled starts no load.
C1_SingleLoadPerKey ==
  \A i \in Ids(texObjs) : Cardinality(InFlight(texObjs[i].key)) <= 1

\* C2: once dispose() has run and no request was issued since, the three
\* caches are empty, whatever load or createPBRMaterial call settles later.
C2_PostDisposalInert ==
  quiet => Empty(textures) /\ Empty(materials) /\ Empty(geometries)

\* The handles that completed calls of operation op with key delivered, the
\* key not disposed since.
DeliveredBy(op, key) ==
  CASE op = "loadTexture" ->
         {i \in Ids(texObjs) : texObjs[i].live /\ texObjs[i].key = key}
    [] op = "createPBRMaterial" ->
         {m \in Ids(matObjs) :
            matObjs[m].live /\ matObjs[m].type = "standard" /\ matObjs[m].name = key}
    [] op = "createGlassMaterial" ->
         {m \in Ids(matObjs) :
            matObjs[m].live /\ matObjs[m].type = "physical" /\ matObjs[m].name = key}
    [] op = "getSphereGeometry" ->
         {g \in Ids(geoObjs) :
            geoObjs[g].live /\ geoObjs[g].type = "sphere" /\ geoObjs[g].key = key}
    [] op = "getPlaneGeometry" ->
         {g \in Ids(geoObjs) :
            geoObjs[g].live /\ geoObjs[g].type = "plane" /\ geoObjs[g].key = key}
    [] OTHER -> {}

\* C3: a call of a constructor-style operation with a key under which an
\* earlier call of the same operation completed, the key not disposed since,
\* returns the handle that call delivered and starts no texture load.
C3_IdempotentCaching ==
  [][\A h \in DeliveredBy(lastOp'.op, lastOp'.key) :
       lastOp'.ret = h /\ lastOp'.started = 0]_vars

PresentSlots(m) == DOMAIN TextureAssets[matObjs[m].asset].textures

\* Call m of createPBRMaterial has every present slot attached, each to a
\* loaded texture of the slot's url.
FullyAttached(m) ==
  /\ DOMAIN matObjs[m].maps = PresentSlots(m)
  /\ \A s \in PresentSlots(m) :
       LET t == texObjs[matObjs[m].maps[s]] IN
       t.state = "loaded" /\ t.url = TextureAssets[matObjs[m].asset].textures[s]

\* C4: a material constructed by createPBRMaterial is in the material cache,
\* or delivered to the caller, only with all N present slots attached.
C4_FanInAtomicity ==
  \A m \in Ids(matObjs) :
    matObjs[m].type = "standard"
      /\ (m \in Values(materials) \/ matObjs[m].status = "resolved" \/ matObjs[m].live)
      => FullyAttached(m)

C4_Witness ==
  \E m \in Values(materials) :
    /\ matObjs[m].type = "standard"
    /\ Cardinality(PresentSlots(m)) = 2
    /\ FullyAttached(m)

FailedSlots(m) ==
  {i \in Ids(texObjs) : texObjs[i].owner = m /\ texObjs[i].state = "failed"}

\* C5: a createPBRMaterial call with a failed slot load is rejected and its
\* material is never stored in the material cache.
C5_CompositeFailure ==
  \A m \in Ids(matObjs) :
    FailedSlots(m) # {}
      => /\ matObjs[m].status = "rejected"
         /\ m \notin Values(materials)
         /\ ~matObjs[m].live

\* A rejected call one of whose other slots loaded and was attached.
C5_Witness ==
  \E m \in Ids(matObjs) :
    /\ FailedSlots(m) # {}
    /\ DOMAIN matObjs[m].maps # {}
    /\ ~Has(materials, matObjs[m].name)

CachedUndisposed ==
  /\ \A i \in Values(textures) : ~texObjs[i].disposed
  /\ \A m \in Values(materials) : ~matObjs[m].disposed
  /\ \A g \in Values(geometries) : ~geoObjs[g].disposed

\* The step is a request that constructs a new object and returns no other.
Constructs(op) ==
  CASE op = "loadTexture" ->
         Len(texObjs') = Len(texObjs) + 1 /\ lastOp'.started = 1
    [] op = "createPBRMaterial" ->
         Len(matObjs') = Len(matObjs) + 1 /\ lastOp'.ret = 0
    [] op = "createGlassMaterial" ->
         Len(matObjs') = Len(matObjs) + 1 /\ lastOp'.ret = Len(matObjs')
    [] op \in {"getSphereGeometry", "getPlaneGeometry"} ->
         Len(geoObjs') = Len(geoObjs) + 1 /\ lastOp'.ret = Len(geoObjs')
    [] OTHER -> FALSE

\* C6: dispose() leaves the three caches empty and every object that was in
\* them disposed; the request that follows misses the cache, a handle it
\* returns is a newly constructed one, and no cache ever holds a disposed object.
C6_DisposeClearsAll ==
  /\ [](CachedUndisposed)
  /\ [][lastOp'.op = "dispose"
          => /\ Empty(textures') /\ Empty(materials') /\ Empty(geometries')
             /\ \A i \in Values(textures) : texObjs'[i].disposed
             /\ \A m \in Values(materials) : matObjs'[m].disposed
             /\ \A g \in Values(geometries) : geoObjs'[g].disposed]_vars
  /\ [][lastOp.op = "dispose" /\ lastOp'.op \in Requests
          => ~lastOp'.hit /\ Constructs(lastOp'.op)]_vars

C6_Witness ==
  /\ lastOp.op = "createGlassMaterial" /\ ~lastOp.hit
  /\ \E m \in Ids(matObjs) :
       m # lastOp.ret /\ matObjs[m].disposed /\ matObjs[m].name = lastOp.key
  /\ \E i \in Ids(texObjs) : texObjs[i].disposed
  /\ \E g \in Ids(geoObjs) : geoObjs[g].disposed

ManagerState == <<textures, materials, geometries, texObjs, matObjs, geoObjs>>

\* C7: a dispose() directly after a dispose() disposes no object and leaves
\* the caches and every object as the first call left them.
C7_DisposeIdempotent ==
  [][lastOp.op = "dispose" /\ lastOp'.op = "dispose"
       => lastOp'.ndisposed = 0 /\ UNCHANGED ManagerState]_vars

C7_Witness ==
  /\ lastOp.op = "dispose" /\ lastOp.repeat /\ lastOp.ndisposed = 0
  /\ \E i \in Ids(texObjs) : texObjs[i].disposed
  /\ \E i \in Ids(texObjs) : texObjs[i].state = "loading"

DefaultKey(g) ==
  LET p == geoObjs[g].parameters IN
  IF geoObjs[g].type = "sphere"
    THEN SphereKey(p[1], p[2], p[3])
    ELSE PlaneKey(p[1], p[2], p[3], p[4])

Holds(key, type, parameters) ==
  Has(geometries, key)
    => /\ geoObjs[geometries[key]].type = type
       /\ geoObjs[geometries[key]].parameters = parameters

\* C8: under its default key a shape finds only a geometry of exactly its
\* parameters, a geometry request returns the object cached under its key,
\* and no two undisposed geometries constructed under their default keys
\* have the same shape: equal parameters give the same instance, different
\* parameters distinct instances.
C8_GeometryDeterminism ==
  /\ \A p \in SphereArgs : Holds(SphereKey(p[1], p[2], p[3]), "sphere", p)
  /\ \A p \in PlaneArgs : Holds(PlaneKey(p[1], p[2], p[3], p[4]), "plane", p)
  /\ lastOp.op \in {"getSphereGeometry", "getPlaneGeometry"}
       => Has(geometries, lastOp.key) /\ geometries[lastOp.key] = lastOp.ret
  /\ \A g, h \in Ids(geoObjs) :
       /\ ~geoObjs[g].disposed /\ ~geoObjs[h].disposed
       /\ geoObjs[g].key = DefaultKey(g) /\ geoObjs[h].key = DefaultKey(h)
       /\ geoObjs[g].type = geoObjs[h].type
       /\ geoObjs[g].parameters = geoObjs[h].parameters
       => g = h

\* getSphereGeometry(1, 32, 32) returned the cached instance while the
\* instance of getSphereGeometry(1, 32, 16) is another one.
C8_Witness ==
  /\ lastOp.op = "getSphereGeometry" /\ lastOp.hit
  /\ lastOp.key = SphereKey(1, 32, 32)
  /\ Has(geometries, SphereKey(1, 32, 16))
  /\ geometries[SphereKey(1, 32, 16)] # lastOp.ret

\* C9: a material that createPBRMaterial resolved from a texture set with an
\* alpha slot has transparency enabled.
C9_AlphaForcesTransparency ==
  \A m \in Ids(matObjs) :
    /\ matObjs[m].type = "standard"
    /\ matObjs[m].status = "resolved"
    /\ "alpha" \in PresentSlots(m)
    => matObjs[m].transparent

C9_Witness ==
  \E m \in Values(materials) :
    /\ matObjs[m].type = "standard"
    /\ "alpha" \in DOMAIN matObjs[m].maps
    /\ ~matObjs[m].argTransparent
    /\ matObjs[m].transparent

\* The disposed flags of objs are unchanged, except that of object i.
OnlyDisposes(objs, objs2, ids) ==
  /\ Len(objs2) = Len(objs)
  /\ \A i \in Ids(objs) : objs2[i].disposed = (objs[i].disposed \/ i \in ids)

\* disposeX(key) on cache map with objects objs: the result is whether key
\* was cached; then its object is disposed and key removed; every other key
\* keeps its object and no other object is disposed.
DisposesOne(map, map2, objs, objs2, key, ret) ==
  /\ ret = Has(map, key)
  /\ map2 = Remove(map, key)
  /\ OnlyDisposes(objs, objs2, IF Has(map, key) THEN {map[key]} ELSE {})

\* C10: disposeTexture, disposeMaterial and disposeGeometry return whether
\* the key was cached, dispose and remove exactly that entry, and leave the
\* other keys and the two other caches unchanged.
C10_DisposeOne ==
  [][/\ lastOp'.op = "disposeTexture"
          => /\ DisposesOne(textures, textures', texObjs, texObjs', lastOp'.key,
                            lastOp'.hit)
             /\ UNCHANGED <<materials, geometries, matObjs, geoObjs>>
     /\ lastOp'.op = "disposeMaterial"
          => /\ DisposesOne(materials, materials', matObjs, matObjs', lastOp'.key,
                            lastOp'.hit)
             /\ UNCHANGED <<textures, geometries, texObjs, geoObjs>>
     /\ lastOp'.op = "disposeGeometry"
          => /\ DisposesOne(geometries, geometries', geoObjs, geoObjs', lastOp'.key,
                            lastOp'.hit)
             /\ UNCHANGED <<textures, materials, texObjs, matObjs>>]_vars

\* disposeTexture removed a key while another texture, a material and a
\* geometry stay cached.
C10_Witness ==
  /\ lastOp.op = "disposeTexture" /\ lastOp.hit
  /\ ~Has(textures, lastOp.key)
  /\ ~Empty(textures) /\ ~Empty(materials) /\ ~Empty(geometries)

\* C11: a failed load rejects its promise and leaves the texture cache as it
\* was; no cache entry ever holds a failed load; and a loadTexture whose key is
\* not cached, an earlier load of the key having failed or not, starts a load.
C11_FailureNotCached ==
  /\ [](\A k \in DOMAIN textures : texObjs[textures[k]].state = "loaded")
  /\ [][lastOp'.op = "onError"
          => /\ texObjs'[lastOp'.ret].state = "failed"
             /\ textures' = textures]_vars
  /\ [][lastOp'.op = "loadTexture" /\ ~Has(textures, lastOp'.key)
          => /\ lastOp'.started = 1
             /\ Len(texObjs') = Len(texObjs) + 1
             /\ texObjs'[Len(texObjs')].state = "loading"]_vars

\* loadTexture started a load for a key whose earlier load failed.
C11_Witness ==
  /\ lastOp.op = "loadTexture" /\ ~lastOp.hit /\ lastOp.started = 1
  /\ \E i \in Ids(texObjs) :
       /\ texObjs[i].state = "failed" /\ texObjs[i].owner = 0
       /\ texObjs[i].key = lastOp.key
  /\ ~Has(textures, lastOp.key)
  /\ texObjs[Len(texObjs)].state = "loading"

\* C12: a createPBRMaterial call that has resolved or rejected has no slot
\* load still in flight.
C12_CompletesAfterAllSettle ==
  \A m \in Ids(matObjs) :
    matObjs[m].type = "standard" /\ matObjs[m].status # "pending"
      => Loading(texObjs, m) = {}

\* The loads call m started for slot s.
SlotLoads(m, s) ==
  {i \in Ids(texObjs) : texObjs[i].owner = m /\ texObjs[i].slot = s}

\* The loadTexture of call m for slot s returned a cached texture.
SlotHit(m, s) ==
  \/ s \in DOMAIN matObjs[m].hits
  \/ s \in DOMAIN matObjs[m].maps /\ matObjs[m].maps[s] \notin SlotLoads(m, s)

\* C13: from the moment a createPBRMaterial call that missed the cache reaches
\* its await, every present slot has exactly one loadTexture request, for the
\* slot's url (one load started, or one cached texture returned), and an
\* absent slot has no request and no texture attached.
C13_OneRequestPerPresentSlot ==
  \A m \in Ids(matObjs) :
    matObjs[m].type = "standard" =>
      \A s \in Slots \cup PresentSlots(m) :
        IF s \in PresentSlots(m)
          THEN /\ \/ Cardinality(SlotLoads(m, s)) = 1 /\ ~SlotHit(m, s)
                  \/ SlotLoads(m, s) = {} /\ SlotHit(m, s)
               /\ \A i \in SlotLoads(m, s) :
                    texObjs[i].url = TextureAssets[matObjs[m].asset].textures[s]
          ELSE /\ SlotLoads(m, s) = {}
               /\ s \notin DOMAIN matObjs[m].hits
               /\ s \notin DOMAIN matObjs[m].maps

\* A call for the set {albedo, normal} has just started its two loads.
C13_Witness ==
  /\ lastOp.op = "createPBRMaterial" /\ ~lastOp.hit /\ lastOp.started = 2
  /\ LET m == Len(matObjs) IN
     /\ PresentSlots(m) = {"albedo", "normal"}
     /\ Cardinality(Loading(texObjs, m)) = 2
     /\ DOMAIN matObjs[m].maps = {}

\* C14: in a material that createPBRMaterial resolved, the texture of the
\* albedo and of the emissive slot is tagged sRGB, and the texture of every
\* other slot is not (it is linear data).
C14_ColorSpaceTags ==
  \A m \in Ids(matObjs) :
    matObjs[m].type = "standard" /\ matObjs[m].status = "resolved"
      => \A s \in DOMAIN matObjs[m].maps :
           (s \in ColorSlots) <=> (texObjs[matObjs[m].maps[s]].colorSpace = "srgb")

\* The step settles a load.
Settles == loadingManager'.itemsLoaded # loadingManager.itemsLoaded

\* Every load the manager started has settled.
Idle(mgr) == mgr.itemsLoaded = mgr.itemsTotal

\* The loads of the batch in flight.
BatchSize == loadingManager.itemsTotal - batch.base

\* C15 as stated: while the loads in flight are one batch of M loads, the
\* completed count does not decrease when a load settles, and it is M exactly
\* when all M loads have settled, a failed load counting as settled.
C15_BatchCountReachesM ==
  [][Settles /\ batch.whole
       => /\ loadingProgress' >= loadingProgress
          /\ (loadingProgress' = BatchSize) <=> Idle(loadingManager')]_vars

\* C15 amended: the completed count never decreases, and while the loads in
\* flight are one batch of M loads it is B + M exactly when all M loads have
\* settled, B being the loads that settled before the batch began; a failed
\* load counts as settled.
C15_BatchCountReachesTotal ==
  [][/\ loadingProgress' >= loadingProgress
     /\ loadingManager'.itemsLoaded >= loadingManager.itemsLoaded
     /\ Settles /\ batch.whole
          => /\ (loadingProgress' = batch.base + BatchSize) <=> Idle(loadingManager')
             /\ loadingProgress' <= batch.base + BatchSize
             /\ lastOp'.op \in {"onLoad", "onError"}]_vars

\* A batch of two loads that began after one load had settled; one of the
\* two has failed, the other is in flight.
C15_Witness ==
  /\ batch.whole /\ batch.base = 1 /\ BatchSize = 2
  /\ lastOp.op = "onError"
  /\ loadingProgress = 2 /\ loadingTotal = 3
  /\ ~Idle(loadingManager)

\* C16: every call of the progress callback passes itemsLoaded / itemsTotal
\* with 0 <= itemsLoaded <= itemsTotal and itemsTotal >= 1.
C16_ProgressInUnitInterval ==
  notified.to # ""
    => /\ 0 <= notified.completed
       /\ notified.completed <= notified.total
       /\ notified.total >= 1

\* The callback received a value below 1 for a load that settled after a
\* dispose() released a texture.
C16_Witness ==
  /\ notified.to # ""
  /\ notified.completed < notified.total
  /\ \E i \in Ids(texObjs) : texObjs[i].disposed

\* C17: setProgressCallback(g) makes g the registered callback and calls
\* nothing; a progress update calls the callback registered last and no
\* other, and leaves the registration alone.
C17_SingleObserver ==
  [][/\ lastOp'.op = "setProgressCallback"
          => onProgressCallback' = lastOp'.key /\ notified' = NoNotice
     /\ notified'.to # ""
          => /\ notified'.to = onProgressCallback
             /\ onProgressCallback' = onProgressCallback
     /\ invoked' \subseteq invoked \cup {onProgressCallback}
     /\ invoked' # invoked => notified'.to # ""]_vars

\* Both callbacks were called, and after the empty callback replaced the
\* first one an update went to the empty callback.
C17_Witness ==
  /\ invoked = Callbacks
  /\ onProgressCallback = "noop"
  /\ notified.to = "noop"

\* Material object mat is a transparent physical material with the glass
\* defaults.
IsGlass(mat) ==
  mat.type = "physical" /\ mat.transparent /\ mat.parameters = GlassDefaults

\* C18 as stated: every createGlassMaterial call returns a transparent
\* physical material with the glass defaults, whatever was done before.
C18_GlassAlwaysGlass ==
  [][lastOp'.op = "createGlassMaterial"
       => /\ lastOp'.ret \in Ids(matObjs')
          /\ IsGlass(matObjs'[lastOp'.ret])]_vars

\* C18 amended: every createGlassMaterial(K) call returns a material, which
\* is then cached under K.  With no material cached under K it is a newly
\* constructed transparent physical material with the glass defaults; with a
\* material cached under K it is that material, unchanged, and it is such a
\* glass material unless createPBRMaterial cached it under K.
C18_GlassUnlessKeyTaken ==
  [][lastOp'.op = "createGlassMaterial"
       => LET key == lastOp'.key
              ret == lastOp'.ret
          IN
          /\ ret \in Ids(matObjs')
          /\ Has(materials', key) /\ materials'[key] = ret
          /\ IF Has(materials, key)
               THEN /\ ret = materials[key]
                    /\ UNCHANGED <<materials, matObjs>>
                    /\ \/ IsGlass(matObjs[ret])
                       \/ matObjs[ret].type = "standard"
               ELSE /\ ret = Len(matObjs) + 1
                    /\ Len(matObjs') = Len(matObjs) + 1
                    /\ IsGlass(matObjs'[ret])
                    /\ ~matObjs'[ret].disposed]_vars

\* createGlassMaterial returned the cached glass material under a key that
\* had held a createPBRMaterial material until it was disposed.
C18_Witness ==
  /\ lastOp.op = "createGlassMaterial" /\ lastOp.hit
  /\ IsGlass(matObjs[lastOp.ret])
  /\ \E m \in Ids(matObjs) :
       /\ matObjs[m].type = "standard" /\ matObjs[m].name = lastOp.key
       /\ matObjs[m].disposed

\* Every key of map except those in related keeps its handle in map2.
KeepsOthers(map, map2, related) ==
  \A k \in DOMAIN map \ related : Has(map2, k) /\ map2[k] = map[k]

\* The key of the createPBRMaterial call that load i belongs to.
CallKey(i) ==
  IF texObjs[i].owner = 0 THEN {} ELSE {matObjs[texObjs[i].owner].name}

\* C19: the failure of a load, and the rejection of the createPBRMaterial
\* call it belongs to, leave every cache entry under a key other than the
\* failed url and the call's key K in place with the same handle.
C19_FailureIsLocal ==
  [][lastOp'.op = "onError"
       => LET i == lastOp'.ret IN
          /\ KeepsOthers(textures, textures', {texObjs[i].url, texObjs[i].key})
          /\ KeepsOthers(materials, materials', CallKey(i))
          /\ KeepsOthers(geometries, geometries', {})]_vars

\* A slot load failed and rejected its createPBRMaterial call while a
\* texture and a material were cached under other keys.
C19_Witness ==
  /\ lastOp.op = "onError"
  /\ LET i == lastOp.ret IN
     /\ texObjs[i].owner # 0
     /\ matObjs[texObjs[i].owner].status = "rejected"
     /\ DOMAIN textures \ {texObjs[i].url} # {}
     /\ DOMAIN materials \ CallKey(i) # {}

\* C20: right after a dispose() called with no load in flight, every texture
\* received from a load, every material a createPBRMaterial or
\* createGlassMaterial call delivered and every geometry has been released.
C20_NoLeak ==
  lastOp.op = "dispose" /\ (\A i \in Ids(texObjs) : texObjs[i].state # "loading")
    => /\ \A i \in Ids(texObjs) : texObjs[i].state = "loaded" => texObjs[i].disposed
       /\ \A m \in Ids(matObjs) : matObjs[m].status = "resolved" => matObjs[m].disposed
       /\ \A g \in Ids(geoObjs) : geoObjs[g].disposed

\* The shape kind a geometry operation constructs.
KindOf(op) == IF op = "getSphereGeometry" THEN "sphere" ELSE "plane"

\* C21: a geometry request with an explicit key that is cached returns the
\* cached handle and constructs nothing, whatever its shape; with the key
\* absent it constructs one geometry of the operation's kind, with
\* parameters of that kind, and caches it under the key.
C21_ExplicitGeometryKey ==
  [][lastOp'.op \in {"getSphereGeometry", "getPlaneGeometry"}
       /\ lastOp'.key \in ExplicitGeometryKeys
       => LET key == lastOp'.key
              ret == lastOp'.ret
          IN
          IF Has(geometries, key)
            THEN /\ lastOp'.hit
                 /\ ret = geometries[key]
                 /\ UNCHANGED <<geometries, geoObjs>>
            ELSE /\ ~lastOp'.hit
                 /\ ret = Len(geoObjs) + 1
                 /\ geoObjs' = Append(geoObjs, geoObjs'[ret])
                 /\ geoObjs'[ret].type = KindOf(lastOp'.op)
                 /\ geoObjs'[ret].parameters \in
                      (IF KindOf(lastOp'.op) = "sphere" THEN SphereArgs ELSE PlaneArgs)
                 /\ geoObjs'[ret].key = key /\ ~geoObjs'[ret].disposed
                 /\ geometries' = Put(geometries, key, ret)]_vars

\* getPlaneGeometry with the explicit key got the sphere cached under it.
C21_Witness ==
  /\ lastOp.op = "getPlaneGeometry" /\ lastOp.hit
  /\ lastOp.key \in ExplicitGeometryKeys
  /\ geoObjs[lastOp.ret].type = "sphere"
  /\ geometries[lastOp.key] = lastOp.ret

\* C24: the step that follows a dispose() delivers no progress update to a
\* callback (any callback registered then was registered before dispose()).
C24_DisposeReleasesCallback ==
  [][lastOp.op = "dispose" => notified'.to = ""]_vars

\* C27: no material in the material cache has a disposed texture in a slot.
C27_NoReleasedTextureInCachedMaterial ==
  \A m \in Values(materials) :
    \A s \in DOMAIN matObjs[m].maps : ~texObjs[matObjs[m].maps[s]].disposed

\* C28: two completed createPBRMaterial calls for one key, the key not
\* disposed since (so the calls overlapped), delivered the same material, and
\* it is the one cached under the key.
C28_OverlappingCallsShareInstance ==
  \A m1, m2 \in Ids(matObjs) :
    /\ matObjs[m1].type = "standard" /\ matObjs[m2].type = "standard"
    /\ matObjs[m1].status = "resolved" /\ matObjs[m2].status = "resolved"
    /\ matObjs[m1].live /\ matObjs[m2].live
    /\ matObjs[m1].name = matObjs[m2].name
    => /\ m1 = m2
       /\ Has(materials, matObjs[m1].name)
       /\ materials[matObjs[m1].name] = m1

\* Every load has settled and no promise reaction is pending.
AllSettled ==
  /\ \A i \in Ids(texObjs) : texObjs[i].state # "loading"
  /\ NoMicrotasks

\* No load failed and no object was disposed.
Undisturbed ==
  /\ \A i \in Ids(texObjs) : texObjs[i].state # "failed" /\ ~texObjs[i].disposed
  /\ \A m \in Ids(matObjs) : ~matObjs[m].disposed

\* The createPBRMaterial calls made have pairwise different keys.
DistinctKeys ==
  \A m1, m2 \in Ids(matObjs) : matObjs[m1].name = matObjs[m2].name => m1 = m2

\* C30: once all loads of createPBRMaterial calls with pairwise different
\* keys have settled, none having failed and nothing having been disposed,
\* the texture cache holds
\* exactly the urls requested, the material cache exactly the keys requested,
\* and every material has exactly its present slots attached, each to a
\* texture of the slot's url: nothing of this depends on the completion order.
C30_SettledCachesIndependentOfOrder ==
  AllSettled /\ Undisturbed /\ DistinctKeys
    => /\ DOMAIN textures = {texObjs[i].key : i \in Ids(texObjs)}
       /\ DOMAIN materials = {matObjs[m].name : m \in Ids(matObjs)}
       /\ \A m \in Ids(matObjs) :
            /\ matObjs[m].status = "resolved"
            /\ materials[matObjs[m].name] = m
            /\ FullyAttached(m)

\* Two calls with different keys were issued together for one texture set;
\* their loads of the same url completed in the order opposite to their start.
C30_Witness ==
  /\ AllSettled /\ Undisturbed /\ DistinctKeys
  /\ Has(materials, "veil") /\ Has(materials, "glass")
  /\ materials["veil"] < materials["glass"]
  /\ matObjs[materials["veil"]].hits = EmptyMap
  /\ \E i, j \in Ids(texObjs) :
       /\ texObjs[i].owner = materials["veil"]
       /\ texObjs[j].owner = materials["glass"]
       /\ textures["l.png"] = i

\* The step is a canvas error of component c.
IsCanvasError(c) == lastOp'.op = "onError" /\ lastOp'.key = c

\* Every canvas error sets the flag and adds 1 to the count of its
\* component, and no step resets the flag or lowers the count.
ErrorsCounted ==
  \A c \in SceneComponents :
    /\ IsCanvasError(c)
         => canvas'[c].hasError /\ canvas'[c].retryCount = canvas[c].retryCount + 1
    /\ canvas[c].hasError => canvas'[c].hasError
    /\ canvas'[c].retryCount >= canvas[c].retryCount
    /\ canvas'[c].retryCount # canvas[c].retryCount => IsCanvasError(c)

\* Component c displays its fallback: it renders it, and the FallbackMessage
\* that Scene renders returns something.
Shown(c) ==
  /\ "fallback" \in Render(c)
  /\ c = "Scene" => FallbackMessage(canvas[c].hasWebGL) # ""

\* C25: every canvas error sets the flag and adds 1 to the count, which are
\* never reset, and each component displays its fallback exactly when the
\* flag is set and the count is at least 3.
C25_FallbackExactlyAfterThree ==
  /\ [][ErrorsCounted]_vars
  /\ [](\A c \in SceneComponents : Shown(c) <=> Fallback(c))

\* Material m is attached to the mesh of a mounted PBRSphere.
Attached(m) ==
  \E s \in Mounted : spheres[s].material = m

\* C22: no material of a texture set of category transparent that is in the
\* material cache or attached to a mesh has transparency enabled while
\* depth-write is still enabled.
C22_TransparentWithoutDepthWrite ==
  \A m \in Ids(matObjs) :
    /\ matObjs[m].type = "standard"
    /\ TextureAssets[matObjs[m].asset].category = "transparent"
    /\ m \in Values(materials) \/ Attached(m)
    => ~(matObjs[m].transparent /\ matObjs[m].depthWrite)

\* C23: the geometry of every mesh that has a material with an
\* ambient-occlusion map attached has the uv2 attribute, and the step that
\* attaches such a material leaves the geometry with uv2.
C23_Uv2BeforeAoMaterial ==
  /\ [](\A s \in Ids(spheres) :
         /\ spheres[s].material # 0
         /\ "aoMap" \in DOMAIN matObjs[spheres[s].material].maps
         => spheres[s].uv2)
  /\ [][\A s \in Ids(spheres) :
          /\ spheres'[s].material # spheres[s].material
          /\ "aoMap" \in DOMAIN matObjs'[spheres'[s].material].maps
          => spheres'[s].uv2 /\ spheres[s].mounted]_vars

\* A sphere mounted after its material was cached (the promise was resolved
\* when the effect got it) has the material with aoMap attached and uv2 set.
C23_Witness ==
  \E s \in Mounted :
    /\ spheres[s].cached
    /\ spheres[s].material # 0
    /\ "aoMap" \in DOMAIN matObjs[spheres[s].material].maps
    /\ spheres[s].uv2

\* C26: a PBRSphere with a texture set id that is not in the catalog makes no
\* createPBRMaterial request; the rejection of a request is caught; in both
\* cases the material state stays unset; and a material state that is set is
\* the material the request resolved with.
C26_FailureKeepsDefaultMaterial ==
  /\ [](\A s \in Ids(spheres) :
         LET sp == spheres[s] IN
         /\ sp.textureSetId \notin AssetIds
              => sp.request = 0 /\ sp.reaction = "none" /\ sp.material = 0
         /\ sp.reaction # "unhandled"
         /\ sp.request # 0 /\ ~sp.cached /\ matObjs[sp.request].status = "rejected"
              => sp.material = 0 /\ sp.reaction \in {"pending", "caught"}
         /\ sp.reaction = "caught" => matObjs[sp.request].status = "rejected"
         /\ sp.material # 0
              => sp.material = sp.request /\ sp.reaction = "fulfilled")
  /\ [][lastOp'.op = "PBRSphere"
          => /\ lastOp'.key \notin AssetIds
             /\ UNCHANGED <<ManagerState, loadingManager>>]_vars
  /\ [][\A s \in Ids(spheres) :
          spheres[s].material # 0 => spheres'[s].material = spheres[s].material]_vars

\* One sphere has an unknown id, the request of another was rejected and the
\* rejection caught; both are mounted with the default material.
C26_Witness ==
  \E s, t \in Mounted :
    /\ spheres[s].textureSetId \notin AssetIds
    /\ spheres[t].reaction = "caught"
    /\ spheres[s].material = 0 /\ spheres[t].material = 0

\* Every element of EnhancedScene is mounted with a texture set of the
\* catalog, its request has resolved or failed and its reaction has run, and
\* no load is in flight: nothing further happens unless the scene unmounts.
SceneSettled ==
  /\ ui.phase = "mounted"
  /\ Cardinality(Mounted) = Len(SpherePositions)
  /\ \A s \in Mounted :
       /\ spheres[s].textureSetId \in AssetIds
       /\ spheres[s].reaction \in {"fulfilled", "caught"}
  /\ AllSettled

\* C29: once every material the spheres of the mounted EnhancedScene
\* requested has resolved or failed and no load is in flight, LoadingProgress
\* has received a value >= 1.0 and called onComplete (the overlay is
\* dismissed), also after a remount and with materials served from the cache.
C29_OverlayDismissed ==
  SceneSettled => ui.loadingComplete

====
